---------------------------- MODULE Spec2Model ----------------------------
(***************************************************************************)
(* Jubarte: spaced-repetition study tracker.                               *)
(*                                                                         *)
(* The module models                                                       *)
(*   - jubarte/models.py          (StudyItem, ReviewItem, new_item,        *)
(*                                 to_dict / from_dict),                   *)
(*   - jubarte/core/scheduler.py  (SimpleSpacedScheduler),                 *)
(*   - jubarte/export/ics_exporter.py (ICSExporter and its helpers),       *)
(*   - jubarte/storage/file_store.py, memory_store.py (the two stores),    *)
(*   - jubarte/app.py             (App),                                   *)
(*   - tests/test_scheduler.py    (the calls the tests make).              *)
(*                                                                         *)
(* Text is a sequence of one-character strings.  A datetime is the number  *)
(* of clock ticks since 1970-01-01T00:00:00Z (an aware datetime is kept as *)
(* its UTC instant); an optional value is <<>> (None) or <<v>>.            *)
(*                                                                         *)
(* The specifications share the variables:                                 *)
(*   Spec           one call of ICSExporter.export, step by step on the    *)
(*                  file system;                                           *)
(*   SpecRerun      two calls of export with the same arguments;           *)
(*   SpecScheduler  the scheduler as tests/test_scheduler.py drives it;    *)
(*   SpecText       the pure text helpers _escape, _fold and the event     *)
(*                  lines built from them;                                 *)
(*   SpecModels     to_dict and from_dict of one StudyItem or ReviewItem;  *)
(*   SpecApp        App.add_item, remove_item, clear and list_items on a   *)
(*                  FileStore that starts with a new file;                 *)
(*   SpecStore      the methods of FileStore called directly.              *)
(***************************************************************************)
EXTENDS Integers, Sequences, FiniteSets, TLC

VARIABLES
    clock,        \* current UTC time, in ticks (datetime.now / utcnow)
    \* ---- tests/test_scheduler.py
    test_pc,      \* "start" | "item" | "generated"
    item,         \* the test's StudyItem, <<>> before new_item
    entry,        \* what generate_initial returned (and update re-assigns)
    now,          \* the local `now` of the last generate_initial call
    exc,          \* exception raised by the last scheduler call, or "none"
    updates,      \* number of sched.update calls made
    \* ---- ICSExporter.export
    pc,           \* position inside export
    reviews,      \* argument `reviews`
    items,        \* argument `items` (item id -> StudyItem)
    uuids,        \* the uuid4 values drawn, one per emitted event
    export_time,  \* local `export_time`
    content,      \* local `content`
    dest,         \* file at `path`: <<>> absent, <<text>> present
    dest_before,  \* the file at `path` when export was called
    tmp_path,     \* local `tmp_path`: <<>> before mkstemp, then <<name>>
    tmp,          \* file at `tmp_path`: <<>> absent, <<text>> present
    error,        \* exception export raised, or "none"
    remove_failed,\* os.remove raised inside the finally block
    \* ---- text helpers
    text_op,      \* "none" | "escape" | "fold" | "vevent"
    text_in,      \* the input text
    text_out,     \* the result
    \* ---- a second export of the same records
    first_doc,    \* the document the first export wrote, <<>> before
    \* ---- to_dict / from_dict
    rt_op,        \* "none" | "to_dict" | "from_dict"
    rt_obj,       \* the StudyItem or ReviewItem
    rt_dict,      \* <<its to_dict()>>, <<>> before
    rt_back,      \* <<from_dict of that>>, <<>> before
    \* ---- App on a FileStore
    store,        \* the content of the JSON file of the FileStore
    store_before, \* the content when the last call was made
    call,         \* the last call: its name and its argument
    raised,       \* the exception the last call raised, or "none"
    ret           \* what the last call returned

schedVars  == <<test_pc, item, entry, now, exc, updates>>
exportVars == <<pc, reviews, items, uuids, export_time, content, dest,
                dest_before, tmp_path, tmp, error, remove_failed>>
textVars   == <<text_op, text_in, text_out>>
rerunVars  == <<first_doc>>
modelVars  == <<rt_op, rt_obj, rt_dict, rt_back>>
appVars    == <<store, store_before, call, raised, ret>>
restVars   == <<rerunVars, modelVars, appVars>>
vars       == <<clock, schedVars, exportVars, textVars, restVars>>

---------------------------------------------------------------------------
(* Bounds of the model *)

MaxClock   == 3     \* the clock runs from 0 to MaxClock ticks
MaxUpdates == 2     \* sched.update calls per test run
MaxReviews == 2     \* records passed to one export
MaxTextLen == 3     \* length of the exhaustively enumerated texts
MaxLineLen == 230   \* length of the longest generated line
ChunkSize  == 256   \* characters flushed to the temp file per write step
TicksPerSecond == 2 \* clock resolution below one second
MaxStoreReviews == 2 \* reviews saved into a FileStore by save_review calls

---------------------------------------------------------------------------
(* Python values *)

None == <<>>
Some(v) == <<v>>

Min(a, b) == IF a < b THEN a ELSE b

\* Concatenation of f[lo], ..., f[hi], halving the range
RECURSIVE ConcatRange(_, _, _)
ConcatRange(f, lo, hi) ==
    IF lo > hi THEN <<>>
    ELSE IF lo = hi THEN f[lo]
    ELSE LET mid == (lo + hi) \div 2
         IN  ConcatRange(f, lo, mid) \o ConcatRange(f, mid + 1, hi)

Concat(f) == ConcatRange(f, 1, Len(f))

\* sep.join(parts)
Join(sep, parts) ==
    Concat([k \in 1..Len(parts) |-> IF k = 1 THEN parts[k] ELSE sep \o parts[k]])

Digit(d) == <<"0", "1", "2", "3", "4", "5", "6", "7", "8", "9">>[d + 1]

CR == "\r"
LF == "\n"
BS == "\\"
CRLF == <<CR, LF>>

---------------------------------------------------------------------------
(* jubarte/models.py *)

SecondsPerDay == 86400

\* timedelta(days=d), in ticks
timedelta(d) == d * SecondsPerDay * TicksPerSecond

\* uuid.uuid4() values (str)
Uuid4 == { <<"u", "1">>, <<"u", "2">> }

\* n successive uuid4 draws: they differ from each other and from run to run
Uuid4Draws(n) ==
    { [k \in 1..n |-> <<"u", seed, "-", Digit(k)>>] : seed \in {"1", "2"} }

StudyItem(id, title, notes, created_at) ==
    [id |-> id, title |-> title, notes |-> notes, created_at |-> created_at]

ReviewItem(item_id, review_date) ==
    [item_id |-> item_id, review_date |-> review_date]

\* new_item(title, notes): id is a fresh uuid4, created_at is _now_utc()
new_item(id, title, notes, t) == StudyItem(id, title, notes, t)

---------------------------------------------------------------------------
(* jubarte/core/scheduler.py *)

BASE_INTERVALS == <<1, 3, 7, 14, 30, 60, 120, 240, 360, 720>>

\* The methods class SimpleSpacedScheduler defines
SchedulerMethods == {"generate_initial"}

\* generate_initial counting the offsets from item.created_at instead of now
GenerateInitialFromCreation(it, t) ==
    [k \in 1..Len(BASE_INTERVALS) |->
        ReviewItem(it.id, Some(it.created_at + timedelta(BASE_INTERVALS[k])))]

\* generate_initial with every offset one day short: the first review is due
\* at `now` itself
GenerateInitialDayEarly(it, t) ==
    [k \in 1..Len(BASE_INTERVALS) |->
        ReviewItem(it.id, Some(t + timedelta(BASE_INTERVALS[k] - 1)))]

\* SimpleSpacedScheduler.generate_initial(item), `t` being datetime.now(utc)
generate_initial(it, t) ==
    [k \in 1..Len(BASE_INTERVALS) |->
        ReviewItem(it.id, Some(t + timedelta(BASE_INTERVALS[k])))]

---------------------------------------------------------------------------
(* jubarte/export/ics_exporter.py: the text helpers *)

FoldLimit == 75

\* s.replace(c, rep) for a one-character pattern c
str_replace(s, c, rep) ==
    Concat([i \in 1..Len(s) |-> IF s[i] = c THEN rep ELSE <<s[i]>>])

\* s.replace("\r\n", "\n"): every CR that an LF follows is dropped
ReplaceCRLF(s) ==
    Concat([i \in 1..Len(s) |->
        IF s[i] = CR /\ i < Len(s) /\ s[i + 1] = LF THEN <<>> ELSE <<s[i]>>])

\* _escape with the backslash pass moved to the end
EscapeBackslashLast(text) ==
    LET s1 == str_replace(ReplaceCRLF(text), CR, <<LF>>)
        s2 == str_replace(s1, LF, <<BS, "n">>)
        s3 == str_replace(s2, ",", <<BS, ",">>)
        s4 == str_replace(s3, ";", <<BS, ";">>)
    IN  str_replace(s4, BS, <<BS, BS>>)

\* ICSExporter._escape(text); None and "" are both <<>> and both give ""
Escape(text) ==
    IF text = None THEN <<>>
    ELSE LET s1 == str_replace(text, BS, <<BS, BS>>)
             s2 == str_replace(ReplaceCRLF(s1), CR, <<LF>>)
             s3 == str_replace(s2, LF, <<BS, "n">>)
             s4 == str_replace(s3, ",", <<BS, ",">>)
         IN  str_replace(s4, ";", <<BS, ";">>)

\* _fold joining the parts with CRLF alone
FoldNoSpace(line, limit) ==
    IF Len(line) <= limit THEN line
    ELSE Join(CRLF,
              [k \in 1..((Len(line) + limit - 1) \div limit) |->
                  SubSeq(line, (k - 1) * limit + 1, Min(k * limit, Len(line)))])

\* ICSExporter._fold(line, limit)
Fold(line, limit) ==
    IF Len(line) <= limit THEN line
    ELSE Join(<<CR, LF, " ">>,
              [k \in 1..((Len(line) + limit - 1) \div limit) |->
                  SubSeq(line, (k - 1) * limit + 1, Min(k * limit, Len(line)))])

\* n as `width` decimal digits, zero padded (strftime %Y %m %d %H %M %S)
Pad(n, width) == [i \in 1..width |-> Digit((n \div (10 ^ (width - i))) % 10)]

\* The proleptic Gregorian date of day number `days` (days since 1970-01-01)
CivilFromDays(days) ==
    LET z   == days + 719468
        era == z \div 146097
        doe == z - era * 146097
        yoe == (doe - doe \div 1460 + doe \div 36524 - doe \div 146096) \div 365
        doy == doe - (365 * yoe + yoe \div 4 - yoe \div 100)
        mp  == (5 * doy + 2) \div 153
        d   == doy - (153 * mp + 2) \div 5 + 1
        m   == IF mp < 10 THEN mp + 3 ELSE mp - 9
        y   == yoe + era * 400 + (IF m <= 2 THEN 1 ELSE 0)
    IN  [year |-> y, month |-> m, day |-> d]

\* ICSExporter._format_dt(dt) for dt other than None: "%Y%m%dT%H%M%SZ" of
\* the UTC instant, the part below one second dropped
FormatDt(dt) ==
    LET secs == dt[1] \div TicksPerSecond
        date == CivilFromDays(secs \div SecondsPerDay)
        sod  == secs % SecondsPerDay
    IN  Pad(date.year, 4) \o Pad(date.month, 2) \o Pad(date.day, 2) \o <<"T">>
        \o Pad(sod \div 3600, 2) \o Pad((sod \div 60) % 60, 2) \o Pad(sod % 60, 2)
        \o <<"Z">>

\* _format_dt raises ValueError("datetime is required for event")
FormatDtRaises(dt) == dt = None

---------------------------------------------------------------------------
(* jubarte/models.py: to_dict / from_dict *)

MicrosPerSecond == 1000000

\* the microsecond field of a datetime whose part below one second is
\* `frac` ticks, and the ticks of a microsecond field
MicrosOfTicks(frac) == (frac * MicrosPerSecond) \div TicksPerSecond
TicksOfMicros(us) == (us * TicksPerSecond + MicrosPerSecond - 1) \div MicrosPerSecond

\* datetime.isoformat(timespec="seconds"): the microseconds are left out
isoformat_seconds(dt) ==
    LET secs == dt \div TicksPerSecond
        date == CivilFromDays(secs \div SecondsPerDay)
        sod  == secs % SecondsPerDay
    IN  Pad(date.year, 4) \o <<"-">> \o Pad(date.month, 2) \o <<"-">>
        \o Pad(date.day, 2) \o <<"T">> \o Pad(sod \div 3600, 2) \o <<":">>
        \o Pad((sod \div 60) % 60, 2) \o <<":">> \o Pad(sod % 60, 2)
        \o <<"+", "0", "0", ":", "0", "0">>

\* datetime.isoformat() of an aware UTC datetime:
\* YYYY-MM-DDTHH:MM:SS[.ffffff]+00:00, the fraction only when it is not zero
isoformat(dt) ==
    LET secs == dt \div TicksPerSecond
        us   == MicrosOfTicks(dt % TicksPerSecond)
        date == CivilFromDays(secs \div SecondsPerDay)
        sod  == secs % SecondsPerDay
    IN  Pad(date.year, 4) \o <<"-">> \o Pad(date.month, 2) \o <<"-">>
        \o Pad(date.day, 2) \o <<"T">> \o Pad(sod \div 3600, 2) \o <<":">>
        \o Pad((sod \div 60) % 60, 2) \o <<":">> \o Pad(sod % 60, 2)
        \o (IF us = 0 THEN <<>> ELSE <<".">> \o Pad(us, 6))
        \o <<"+", "0", "0", ":", "0", "0">>

DigitValues ==
    ("0" :> 0) @@ ("1" :> 1) @@ ("2" :> 2) @@ ("3" :> 3) @@ ("4" :> 4)
    @@ ("5" :> 5) @@ ("6" :> 6) @@ ("7" :> 7) @@ ("8" :> 8) @@ ("9" :> 9)

DigitValue(c) == DigitValues[c]

\* int(s) for a text of decimal digits
RECURSIVE ParseInt(_)
ParseInt(s) ==
    IF s = <<>> THEN 0
    ELSE ParseInt(SubSeq(s, 1, Len(s) - 1)) * 10 + DigitValue(s[Len(s)])

\* the day number (days since 1970-01-01) of a proleptic Gregorian date
DaysFromCivil(year, month, day) ==
    LET y   == IF month <= 2 THEN year - 1 ELSE year
        era == y \div 400
        yoe == y - era * 400
        mp  == IF month > 2 THEN month - 3 ELSE month + 9
        doy == (153 * mp + 2) \div 5 + day - 1
        doe == yoe * 365 + yoe \div 4 - yoe \div 100 + doy
    IN  era * 146097 + doe - 719468

\* datetime.fromisoformat(s) for YYYY-MM-DDTHH:MM:SS[.ffffff][+HH:MM], as the
\* UTC instant in ticks
fromisoformat(s) ==
    LET Num(a, b) == ParseInt(SubSeq(s, a, b))
        days      == DaysFromCivil(Num(1, 4), Num(6, 7), Num(9, 10))
        sod       == Num(12, 13) * 3600 + Num(15, 16) * 60 + Num(18, 19)
        hasFrac   == Len(s) >= 20 /\ s[20] = "."
        us        == IF hasFrac THEN Num(21, 26) ELSE 0
        z         == IF hasFrac THEN 27 ELSE 20
        hasOffset == Len(s) >= z + 5
        offset    == IF hasOffset
                     THEN (IF s[z] = "-" THEN -1 ELSE 1)
                          * (Num(z + 1, z + 2) * 3600 + Num(z + 4, z + 5) * 60)
                     ELSE 0
    IN  (days * SecondsPerDay + sod - offset) * TicksPerSecond + TicksOfMicros(us)

\* StudyItem.to_dict
StudyItem_to_dict(self) ==
    [id |-> self.id, title |-> self.title, notes |-> self.notes,
     created_at |-> isoformat(self.created_at)]

\* StudyItem.from_dict
StudyItem_from_dict(d) ==
    StudyItem(d.id, d.title,
              IF "notes" \in DOMAIN d THEN d.notes ELSE <<>>,
              fromisoformat(d.created_at))

\* ReviewItem.to_dict
ReviewItem_to_dict(self) ==
    [item_id |-> self.item_id, review_date |-> isoformat(self.review_date[1])]

\* ReviewItem.from_dict
ReviewItem_from_dict(d) ==
    ReviewItem(d.item_id, Some(fromisoformat(d.review_date)))

---------------------------------------------------------------------------
(* jubarte/storage/memory_store.py *)

\* A Python dict is the sequence of its (key, value) entries in insertion
\* order.  dict[k] = v: the entry of k gets the value, a new key is appended
DictSet(dict, k, v) ==
    IF \E i \in 1..Len(dict) : dict[i].key = k
    THEN [i \in 1..Len(dict) |->
             IF dict[i].key = k THEN [key |-> k, value |-> v] ELSE dict[i]]
    ELSE Append(dict, [key |-> k, value |-> v])

\* list(dict.values())
DictValues(dict) == [i \in 1..Len(dict) |-> dict[i].value]

\* MemoryStore()
MemoryStore == [_items |-> <<>>, _reviews |-> <<>>]

\* MemoryStore.save_item
ms_save_item(ms, it) == [ms EXCEPT !._items = DictSet(@, it.id, it)]

\* MemoryStore.load_items
ms_load_items(ms) == DictValues(ms._items)

\* MemoryStore.save_review
ms_save_review(ms, r) == [ms EXCEPT !._reviews = DictSet(@, r.item_id, r)]

\* MemoryStore.load_reviews
ms_load_reviews(ms) == DictValues(ms._reviews)

---------------------------------------------------------------------------
(* jubarte/storage/file_store.py: `d` is the content of the JSON file *)

\* {"items": [], "reviews": []}
EmptyData == [items |-> <<>>, reviews |-> <<>>]

\* FileStore.save_item
fs_save_item(d, it) ==
    LET Other(x) == x.id # it.id
    IN  [d EXCEPT !.items = Append(SelectSeq(d.items, Other), StudyItem_to_dict(it))]

\* FileStore.load_items
fs_load_items(d) == [i \in 1..Len(d.items) |-> StudyItem_from_dict(d.items[i])]

\* save_review replacing the stored reviews of the item, as save_item
\* replaces the stored item of the id
fs_save_review_keyed(d, r) ==
    LET Other(x) == x.item_id # r.item_id
    IN  [d EXCEPT !.reviews = Append(SelectSeq(@, Other), ReviewItem_to_dict(r))]

\* FileStore.save_review
fs_save_review(d, r) ==
    [d EXCEPT !.reviews = Append(@, ReviewItem_to_dict(r))]

\* FileStore.load_reviews
fs_load_reviews(d) ==
    [i \in 1..Len(d.reviews) |-> ReviewItem_from_dict(d.reviews[i])]

\* FileStore.clear
fs_clear(d) == EmptyData

\* FileStore.remove_reviews_for_item
fs_remove_reviews_for_item(d, item_id) ==
    LET Other(r) == r.item_id # item_id
    IN  [d EXCEPT !.reviews = SelectSeq(d.reviews, Other)]

\* the id of the first item of d titled `title`, "" when there is none
FirstIdByTitle(d, title) ==
    LET hits == {i \in 1..Len(d.items) : d.items[i].title = title}
    IN  IF hits = {} THEN <<>>
        ELSE d.items[CHOOSE i \in hits : \A j \in hits : i <= j].id

\* remove_item_by_title without the call of remove_reviews_for_item
fs_remove_item_only(d, title) ==
    LET Other(x) == x.title # title
    IN  [d EXCEPT !.items = SelectSeq(d.items, Other)]

\* FileStore.remove_item_by_title
fs_remove_item_by_title(d, title) ==
    LET item_id == FirstIdByTitle(d, title)
        d2      == fs_remove_reviews_for_item(d, item_id)
        Other(x) == x.title # title
    IN  [d2 EXCEPT !.items = SelectSeq(d2.items, Other)]

RECURSIVE SaveItemsInto(_, _)
SaveItemsInto(ms, its) ==
    IF its = <<>> THEN ms
    ELSE SaveItemsInto(ms_save_item(ms, Head(its)), Tail(its))

RECURSIVE SaveReviewsInto(_, _)
SaveReviewsInto(ms, rs) ==
    IF rs = <<>> THEN ms
    ELSE SaveReviewsInto(ms_save_review(ms, Head(rs)), Tail(rs))

\* FileStore.as_memory
as_memory(d) ==
    SaveReviewsInto(SaveItemsInto(MemoryStore, fs_load_items(d)),
                    fs_load_reviews(d))

---------------------------------------------------------------------------
(* jubarte/app.py: `d` is the content of the file of self.store *)

\* {it.id: it for it in self.store.load_items()}
RECURSIVE DictById(_)
DictById(its) ==
    IF its = <<>> THEN <<>>
    ELSE DictSet(DictById(SubSeq(its, 1, Len(its) - 1)),
                 its[Len(its)].id, its[Len(its)])

\* the title check that finds no item
TitleExistsNever(d, title) == FALSE

\* lines 72-75: some stored item has the title
TitleExists(d, title) ==
    LET its == DictValues(DictById(fs_load_items(d)))
    IN  \E i \in 1..Len(its) : its[i].title = title

\* for review in reviews: self.store.save_review(review)
RECURSIVE SaveReviews(_, _)
SaveReviews(d, rs) ==
    IF rs = <<>> THEN d
    ELSE SaveReviews(fs_save_review(d, Head(rs)), Tail(rs))

\* App.add_item, lines 76-79: `it` is the new item, t the scheduler's now
add_item(d, it, t) == SaveReviews(fs_save_item(d, it), generate_initial(it, t))

\* dt.date() of a UTC datetime, as a day number
DateOf(dt) == (dt \div TicksPerSecond) \div SecondsPerDay

\* the entries of `dict` with key k: what the generator given to next() yields
EntriesOf(dict, k) ==
    LET Hit(e) == e.key = k
    IN  SelectSeq(dict, Hit)

\* App.list_items: next() raises StopIteration when the generator is empty
ListItemsRaises(d) ==
    LET dict == DictById(fs_load_items(d))
        rs   == fs_load_reviews(d)
    IN  \E i \in 1..Len(rs) : EntriesOf(dict, rs[i].item_id) = <<>>

\* App.list_items(due_only), t being its `now`
list_items(d, due_only, t) ==
    LET dict == DictById(fs_load_items(d))
        rs   == fs_load_reviews(d)
        Due(r) == ~(due_only /\ DateOf(r.review_date[1]) # DateOf(t))
        kept == SelectSeq(rs, Due)
    IN  [i \in 1..Len(kept) |->
            [item   |-> Head(EntriesOf(dict, kept[i].item_id)).value,
             review |-> kept[i]]]

---------------------------------------------------------------------------
(* jubarte/export/ics_exporter.py: ICSExporter.export *)

S_BEGIN_VCALENDAR == <<"B", "E", "G", "I", "N", ":", "V", "C", "A", "L", "E", "N", "D", "A", "R">>
S_VERSION == <<"V", "E", "R", "S", "I", "O", "N", ":", "2", ".", "0">>
S_PRODID == <<"P", "R", "O", "D", "I", "D", ":", "-", "/", "/", "j", "u", "b", "a", "r", "t", "e", "/", "/", "E", "N">>
S_BEGIN_VEVENT == <<"B", "E", "G", "I", "N", ":", "V", "E", "V", "E", "N", "T">>
S_END_VEVENT == <<"E", "N", "D", ":", "V", "E", "V", "E", "N", "T">>
S_END_VCALENDAR == <<"E", "N", "D", ":", "V", "C", "A", "L", "E", "N", "D", "A", "R">>
S_UID == <<"U", "I", "D", ":">>
S_DTSTAMP == <<"D", "T", "S", "T", "A", "M", "P", ":">>
S_DTSTART == <<"D", "T", "S", "T", "A", "R", "T", ":">>
S_SUMMARY == <<"S", "U", "M", "M", "A", "R", "Y", ":">>
S_DESCRIPTION == <<"D", "E", "S", "C", "R", "I", "P", "T", "I", "O", "N", ":">>
S_Review == <<"R", "e", "v", "i", "e", "w", ":", " ">>
S_at_jubarte == <<"@", "j", "u", "b", "a", "r", "t", "e">>

\* items.get(item_id)
Get(its, id) == IF id \in DOMAIN its THEN Some(its[id]) ELSE None

\* sorted() compares every element of a list of two or more with a
\* neighbour, and `<` with a None key raises TypeError
SortRaises(rs) ==
    /\ Len(rs) >= 2
    /\ \E k \in 1..Len(rs) : rs[k].review_date = None

\* r put before the elements of `srt` whose key equals its key
InsertByDateUnstable(srt, r) ==
    LET before == {k \in 1..Len(srt) : srt[k].review_date[1] < r.review_date[1]}
        n      == IF before = {} THEN 0
                  ELSE CHOOSE k \in before : \A j \in before : j <= k
    IN  SubSeq(srt, 1, n) \o <<r>> \o SubSeq(srt, n + 1, Len(srt))

\* r put behind the last element of the sorted list `srt` whose key is <= its key
InsertByDate(srt, r) ==
    LET after == {k \in 1..Len(srt) : srt[k].review_date[1] <= r.review_date[1]}
        n     == IF after = {} THEN 0
                 ELSE CHOOSE k \in after : \A j \in after : j <= k
    IN  SubSeq(srt, 1, n) \o <<r>> \o SubSeq(srt, n + 1, Len(srt))

\* sorted(...) leaving the records in the order given
SortedNot(rs) == rs

\* sorted(reviews, key=lambda x: x.review_date): ascending and stable
RECURSIVE Sorted(_)
Sorted(rs) ==
    IF Len(rs) <= 1 THEN rs
    ELSE InsertByDate(Sorted(SubSeq(rs, 1, Len(rs) - 1)), rs[Len(rs)])

\* the event block with no fallback label for a record whose item is missing
VEventNoFallback(r, it, uid4, t) ==
    LET uid         == r.item_id \o <<"-">> \o uid4 \o S_at_jubarte
        summary     == S_Review \o (IF it # None THEN it[1].title ELSE <<>>)
        description == IF it # None THEN it[1].notes ELSE <<>>
    IN  << S_BEGIN_VEVENT,
           Fold(S_UID \o Escape(uid), FoldLimit),
           Fold(S_DTSTAMP \o FormatDt(Some(t)), FoldLimit),
           Fold(S_DTSTART \o FormatDt(r.review_date), FoldLimit),
           Fold(S_SUMMARY \o Escape(summary), FoldLimit),
           Fold(S_DESCRIPTION \o Escape(description), FoldLimit),
           S_END_VEVENT >>

\* the event block with the line folded before its value is escaped
VEventFoldFirst(r, it, uid4, t) ==
    LET uid         == r.item_id \o <<"-">> \o uid4 \o S_at_jubarte
        summary     == S_Review \o (IF it # None THEN it[1].title ELSE r.item_id)
        description == IF it # None THEN it[1].notes ELSE <<>>
    IN  << S_BEGIN_VEVENT,
           S_UID \o Escape(Fold(uid, FoldLimit)),
           Fold(S_DTSTAMP \o FormatDt(Some(t)), FoldLimit),
           Fold(S_DTSTART \o FormatDt(r.review_date), FoldLimit),
           S_SUMMARY \o Escape(Fold(summary, FoldLimit)),
           S_DESCRIPTION \o Escape(Fold(description, FoldLimit)),
           S_END_VEVENT >>

\* the event block with DTSTART taken from the export time
VEventStartIsStamp(r, it, uid4, t) ==
    LET uid         == r.item_id \o <<"-">> \o uid4 \o S_at_jubarte
        summary     == S_Review \o (IF it # None THEN it[1].title ELSE r.item_id)
        description == IF it # None THEN it[1].notes ELSE <<>>
    IN  << S_BEGIN_VEVENT,
           Fold(S_UID \o Escape(uid), FoldLimit),
           Fold(S_DTSTAMP \o FormatDt(Some(t)), FoldLimit),
           Fold(S_DTSTART \o FormatDt(Some(t)), FoldLimit),
           Fold(S_SUMMARY \o Escape(summary), FoldLimit),
           Fold(S_DESCRIPTION \o Escape(description), FoldLimit),
           S_END_VEVENT >>

\* The loop body: the VEVENT lines of review r, `it` = items.get(r.item_id),
\* uid4 = str(uuid.uuid4()), t = export_time
VEvent(r, it, uid4, t) ==
    LET uid         == r.item_id \o <<"-">> \o uid4 \o S_at_jubarte
        dtstart     == FormatDt(r.review_date)
        summary     == S_Review \o (IF it # None THEN it[1].title ELSE r.item_id)
        description == IF it # None THEN it[1].notes ELSE <<>>
    IN  << S_BEGIN_VEVENT,
           Fold(S_UID \o Escape(uid), FoldLimit),
           Fold(S_DTSTAMP \o FormatDt(Some(t)), FoldLimit),
           Fold(S_DTSTART \o dtstart, FoldLimit),
           Fold(S_SUMMARY \o Escape(summary), FoldLimit),
           Fold(S_DESCRIPTION \o Escape(description), FoldLimit),
           S_END_VEVENT >>

\* `lines` with the events kept in a mapping keyed by item_id: a record is
\* emitted only when no later record has its item_id
LinesOnePerItem(rs, its, us, t) ==
    LET srt  == Sorted(rs)
        Last(k) == \A j \in (k + 1)..Len(srt) : srt[j].item_id # srt[k].item_id
    IN  <<S_BEGIN_VCALENDAR, S_VERSION, S_PRODID>>
        \o Concat([k \in 1..Len(srt) |->
                      IF Last(k)
                      THEN VEvent(srt[k], Get(its, srt[k].item_id), us[k], t)
                      ELSE <<>>])
        \o <<S_END_VCALENDAR>>

\* `lines` when the loop has ended
Lines(rs, its, us, t) ==
    LET srt == Sorted(rs)
    IN  <<S_BEGIN_VCALENDAR, S_VERSION, S_PRODID>>
        \o Concat([k \in 1..Len(srt) |->
                      VEvent(srt[k], Get(its, srt[k].item_id), us[k], t)])
        \o <<S_END_VCALENDAR>>

\* content = "\r\n".join(lines) + "\r\n"
Content(lines) == Join(CRLF, lines) \o CRLF

---------------------------------------------------------------------------
(* tests/test_scheduler.py: the calls of the two tests *)

Titles == { <<"T", "e", "s", "t", "e">>, <<"a", ",", "b">> }
Results == {"again", "hard", "good", "easy"}

\* time passes
Tick ==
    /\ clock < MaxClock
    /\ clock' = clock + 1

\* item = new_item("Teste")
TestNewItem ==
    /\ test_pc = "start"
    /\ \E id \in Uuid4, title \in Titles :
          item' = new_item(id, title, <<>>, clock)
    /\ test_pc' = "item"
    /\ UNCHANGED <<clock, entry, now, exc, updates, exportVars, textVars, restVars>>

\* entry = sched.generate_initial(item)
TestGenerateInitial ==
    /\ test_pc = "item"
    /\ now' = clock
    /\ entry' = generate_initial(item, clock)
    /\ exc' = "none"
    /\ test_pc' = "generated"
    /\ UNCHANGED <<clock, item, updates, exportVars, textVars, restVars>>

\* entry = sched.update(entry, result): SimpleSpacedScheduler has no such
\* method, the attribute lookup raises and `entry` keeps its value
TestUpdate ==
    /\ test_pc = "generated"
    /\ updates < MaxUpdates
    /\ \E result \in Results :
          /\ "update" \notin SchedulerMethods
          /\ exc' = "AttributeError"
    /\ updates' = updates + 1
    /\ UNCHANGED <<clock, test_pc, item, entry, now, exportVars, textVars, restVars>>

TickScheduler == Tick /\ UNCHANGED <<schedVars, exportVars, textVars, restVars>>

InitExportIdle ==
    /\ pc = "idle" /\ reviews = <<>> /\ items = <<>> /\ uuids = <<>>
    /\ export_time = 0 /\ content = <<>> /\ dest = None /\ dest_before = None
    /\ tmp_path = None /\ tmp = None /\ error = "none" /\ remove_failed = FALSE

InitTextIdle == text_op = "none" /\ text_in = <<>> /\ text_out = <<>>

InitSchedIdle ==
    /\ test_pc = "start" /\ item = None /\ entry = <<>> /\ now = 0
    /\ exc = "none" /\ updates = 0

InitRerunIdle == first_doc = None

InitModelIdle ==
    rt_op = "none" /\ rt_obj = None /\ rt_dict = None /\ rt_back = None

InitAppIdle ==
    /\ store = [items |-> <<>>, reviews |-> <<>>]
    /\ store_before = store
    /\ call = [op |-> "none", arg |-> <<>>]
    /\ raised = "none"
    /\ ret = None

InitRestIdle == InitRerunIdle /\ InitModelIdle /\ InitAppIdle

InitScheduler ==
    /\ clock = 0
    /\ InitSchedIdle
    /\ InitExportIdle
    /\ InitTextIdle
    /\ InitRestIdle

NextScheduler ==
    \/ TickScheduler
    \/ TestNewItem
    \/ TestGenerateInitial
    \/ TestUpdate

SpecScheduler == InitScheduler /\ [][NextScheduler]_vars

---------------------------------------------------------------------------
(* One call of ICSExporter.export(reviews, items, path) *)

ItemIds == { <<"a">>, <<"b", ";">> }

\* review dates: None, and three instants of which the first two fall in
\* the same second
ExportDates ==
    { None, Some(timedelta(1)), Some(timedelta(1) + 1),
      Some(timedelta(1) + TicksPerSecond) }

ReviewSeqs ==
    UNION { [1..n -> [item_id : ItemIds, review_date : ExportDates]] :
            n \in 0..MaxReviews }

\* a title long enough for the SUMMARY line to be folded
LongTitle == [i \in 1..70 |-> <<"M", "a", "t", "h", ",", " ">>[((i - 1) % 6) + 1]]

ItemA == StudyItem(<<"a">>, LongTitle, <<"x", ",", "y", ";", BS, LF, "z">>, 0)
ItemB == StudyItem(<<"b", ";">>, <<"B", ";">>, <<>>, 0)

\* the `items` mappings: item a alone, items a and b
ItemLookups ==
    { [id \in { <<"a">> } |-> ItemA],
      [id \in ItemIds |-> IF id = <<"a">> THEN ItemA ELSE ItemB] }

\* the name mkstemp makes up: prefix "." + path.name + ".", a random suffix
TmpName == <<".", "o", ".", "i", "c", "s", ".", "x", "1">>

\* what an earlier export left at `path`
OldDocument == Content(<<S_BEGIN_VCALENDAR, S_VERSION, S_PRODID, S_END_VCALENDAR>>)

UNCHANGED_others == UNCHANGED <<clock, schedVars, textVars, restVars>>

\* export(reviews, items, path) is called: lines 69-77
ExportCall ==
    /\ pc = "idle"
    /\ \E rs \in ReviewSeqs, its \in ItemLookups :
          /\ reviews' = rs
          /\ items' = its
    /\ export_time' = clock
    /\ dest_before' = dest
    /\ pc' = "loop"
    /\ UNCHANGED <<tmp_path, uuids, content, dest, tmp, error, remove_failed>>
    /\ UNCHANGED_others

\* line 79: sorted() raises TypeError on a None key among two or more
ExportSortRaises ==
    /\ pc = "loop"
    /\ SortRaises(reviews)
    /\ error' = "TypeError"
    /\ pc' = "raised"
    /\ UNCHANGED <<tmp_path, reviews, items, uuids, export_time, content, dest,
                   dest_before, tmp, remove_failed>>
    /\ UNCHANGED_others

\* line 82: _format_dt(r.review_date) raises ValueError on None
ExportFormatRaises ==
    /\ pc = "loop"
    /\ ~SortRaises(reviews)
    /\ \E k \in 1..Len(reviews) : FormatDtRaises(Sorted(reviews)[k].review_date)
    /\ error' = "ValueError"
    /\ pc' = "raised"
    /\ UNCHANGED <<tmp_path, reviews, items, uuids, export_time, content, dest,
                   dest_before, tmp, remove_failed>>
    /\ UNCHANGED_others

\* lines 79-99: the loop runs to its end and `content` is built
ExportBuild ==
    /\ pc = "loop"
    /\ ~SortRaises(reviews)
    /\ \A k \in 1..Len(reviews) : ~FormatDtRaises(reviews[k].review_date)
    /\ \E us \in Uuid4Draws(Len(reviews)) :
          /\ uuids' = us
          /\ content' = Content(Lines(reviews, items, us, export_time))
    /\ pc' = "mkstemp"
    /\ UNCHANGED <<tmp_path, reviews, items, export_time, dest, dest_before, tmp,
                   error, remove_failed>>
    /\ UNCHANGED_others

\* lines 101-105: mkdir and mkstemp create the empty temporary file
ExportMkstemp ==
    /\ pc = "mkstemp"
    /\ tmp_path' = Some(TmpName)
    /\ tmp' = Some(<<>>)
    /\ pc' = "write"
    /\ UNCHANGED <<reviews, items, uuids, export_time, content, dest,
                   dest_before, error, remove_failed>>
    /\ UNCHANGED_others

\* lines 101-105: mkdir or mkstemp raises, outside the try block
ExportMkstempFails ==
    /\ pc = "mkstemp"
    /\ error' = "OSError"
    /\ pc' = "raised"
    /\ UNCHANGED <<tmp_path, reviews, items, uuids, export_time, content, dest,
                   dest_before, tmp, remove_failed>>
    /\ UNCHANGED_others

\* lines 107-108: the next ChunkSize characters of content reach the file
ExportWrite ==
    /\ pc = "write"
    /\ Len(tmp[1]) < Len(content)
    /\ tmp' = Some(SubSeq(content, 1, Min(Len(tmp[1]) + ChunkSize, Len(content))))
    /\ UNCHANGED <<tmp_path, pc, reviews, items, uuids, export_time, content, dest,
                   dest_before, error, remove_failed>>
    /\ UNCHANGED_others

\* lines 107-108: everything is written and the with block closes the file
ExportClose ==
    /\ pc = "write"
    /\ Len(tmp[1]) = Len(content)
    /\ pc' = "replace"
    /\ UNCHANGED <<tmp_path, reviews, items, uuids, export_time, content, dest,
                   dest_before, tmp, error, remove_failed>>
    /\ UNCHANGED_others

\* lines 107-108: fdopen, write or close raises (disk full, I/O error)
ExportWriteFails ==
    /\ pc = "write"
    /\ error' = "OSError"
    /\ pc' = "finally"
    /\ UNCHANGED <<tmp_path, reviews, items, uuids, export_time, content, dest,
                   dest_before, tmp, remove_failed>>
    /\ UNCHANGED_others

\* os.replace writing the file in place of renaming it
ReplaceInPlace(d, t) == [dest |-> Some(SubSeq(t[1], 1, Len(t[1]) \div 2)), tmp |-> t]

\* os.replace(tmp_path, path): the rename is atomic
os_replace(d, t) == [dest |-> t, tmp |-> None]

\* line 109: os.replace succeeds
ExportReplace ==
    /\ pc = "replace"
    /\ dest' = os_replace(dest, tmp).dest
    /\ tmp' = os_replace(dest, tmp).tmp
    /\ pc' = "finally"
    /\ UNCHANGED <<tmp_path, reviews, items, uuids, export_time, content, dest_before,
                   error, remove_failed>>
    /\ UNCHANGED_others

\* line 109: os.replace raises and changes nothing
ExportReplaceFails ==
    /\ pc = "replace"
    /\ error' = "OSError"
    /\ pc' = "finally"
    /\ UNCHANGED <<tmp_path, reviews, items, uuids, export_time, content, dest,
                   dest_before, tmp, remove_failed>>
    /\ UNCHANGED_others

Exit == IF error = "none" THEN "returned" ELSE "raised"

\* a cleanup that leaves the temporary file where it is
os_remove_nothing(t) == t

\* os.remove(tmp_path) succeeding: the file is gone
os_remove(t) == None

\* lines 110-113: the temporary file still exists and os.remove removes it
ExportCleanupRemove ==
    /\ pc = "finally"
    /\ tmp # None
    /\ tmp' = os_remove(tmp)
    /\ pc' = Exit
    /\ UNCHANGED <<tmp_path, reviews, items, uuids, export_time, content, dest,
                   dest_before, error, remove_failed>>
    /\ UNCHANGED_others

\* lines 112-115: os.remove raises and `except Exception: pass` drops it
ExportCleanupRemoveFails ==
    /\ pc = "finally"
    /\ tmp # None
    /\ remove_failed' = TRUE
    /\ pc' = Exit
    /\ UNCHANGED <<tmp_path, reviews, items, uuids, export_time, content, dest,
                   dest_before, tmp, error>>
    /\ UNCHANGED_others

\* line 111: os.path.exists(tmp_path) is false, nothing to remove
ExportCleanupSkip ==
    /\ pc = "finally"
    /\ tmp = None
    /\ pc' = Exit
    /\ UNCHANGED <<tmp_path, reviews, items, uuids, export_time, content, dest,
                   dest_before, tmp, error, remove_failed>>
    /\ UNCHANGED_others

Init ==
    /\ clock \in {0, MaxClock}
    /\ InitSchedIdle
    /\ InitTextIdle
    /\ InitRestIdle
    /\ pc = "idle" /\ reviews = <<>> /\ items = <<>> /\ uuids = <<>>
    /\ export_time = 0 /\ content = <<>>
    /\ dest \in {None, Some(OldDocument)}
    /\ dest_before = dest
    /\ tmp_path = None /\ tmp = None /\ error = "none" /\ remove_failed = FALSE

Next ==
    \/ ExportCall
    \/ ExportSortRaises
    \/ ExportFormatRaises
    \/ ExportBuild
    \/ ExportMkstemp
    \/ ExportMkstempFails
    \/ ExportWrite
    \/ ExportClose
    \/ ExportWriteFails
    \/ ExportReplace
    \/ ExportReplaceFails
    \/ ExportCleanupRemove
    \/ ExportCleanupRemoveFails
    \/ ExportCleanupSkip

Spec == Init /\ [][Next]_vars

---------------------------------------------------------------------------
(* Two calls of ICSExporter.export with the same records and lookup *)

\* a second passes between the two calls
TickBetweenRuns ==
    /\ pc = "returned"
    /\ first_doc = None
    /\ clock + TicksPerSecond <= MaxClock
    /\ clock' = clock + TicksPerSecond
    /\ UNCHANGED <<schedVars, exportVars, textVars, restVars>>

\* export(reviews, items, path) is called again with the same arguments: the
\* locals are new, the file at `path` is the document of the first call
ExportAgain ==
    /\ pc = "returned"
    /\ first_doc = None
    /\ first_doc' = dest
    /\ export_time' = clock
    /\ dest_before' = dest
    /\ uuids' = <<>>
    /\ content' = <<>>
    /\ tmp_path' = None
    /\ pc' = "loop"
    /\ UNCHANGED <<reviews, items, dest, tmp, error, remove_failed>>
    /\ UNCHANGED <<clock, schedVars, textVars, modelVars, appVars>>

NextRerun ==
    \/ Next
    \/ TickBetweenRuns
    \/ ExportAgain

\* the first call finds no file at `path`
InitRerun ==
    /\ clock = 0
    /\ InitSchedIdle
    /\ InitTextIdle
    /\ InitRestIdle
    /\ InitExportIdle

SpecRerun == InitRerun /\ [][NextRerun]_vars

---------------------------------------------------------------------------
(* The text helpers applied to one input: _escape, _fold, the event lines *)

Alphabet == {"a", "n", ",", ";", BS, CR, LF}

LineAlphabet == <<"a", ",", "b", ";", "c", BS, "n", "d", " ">>

\* every text of at most MaxTextLen characters of Alphabet
ShortTexts == UNION { [1..n -> Alphabet] : n \in 0..MaxTextLen }

\* one line of every length up to MaxLineLen, without line breaks
LongLines ==
    { [i \in 1..n |-> LineAlphabet[((i - 1) % Len(LineAlphabet)) + 1]] :
      n \in 0..MaxLineLen }

\* the note "a,b;c<LF>d"
ExampleNote == <<"a", ",", "b", ";", "c", LF, "d">>

TextInputs == ShortTexts \cup LongLines \cup {ExampleNote}

\* self._escape(text)
ApplyEscape ==
    /\ text_op = "none"
    /\ text_out' = Escape(text_in)
    /\ text_op' = "escape"
    /\ UNCHANGED <<clock, text_in, schedVars, exportVars, restVars>>

\* self._fold(line)
ApplyFold ==
    /\ text_op = "none"
    /\ text_out' = Fold(text_in, FoldLimit)
    /\ text_op' = "fold"
    /\ UNCHANGED <<clock, text_in, schedVars, exportVars, restVars>>

\* the loop body of export for a record whose item id is the text and whose
\* item, titled and annotated with the text, is in the lookup
ApplyVEvent ==
    /\ text_op = "none"
    /\ text_out' = VEvent(ReviewItem(text_in, Some(timedelta(1))),
                          Some(StudyItem(text_in, text_in, text_in, 0)),
                          <<"u", "1">>, clock)
    /\ text_op' = "vevent"
    /\ UNCHANGED <<clock, text_in, schedVars, exportVars, restVars>>

\* the same for a record whose item is missing from the lookup
ApplyVEventNoItem ==
    /\ text_op = "none"
    /\ text_out' = VEvent(ReviewItem(text_in, Some(timedelta(1))), None,
                          <<"u", "1">>, clock)
    /\ text_op' = "vevent_noitem"
    /\ UNCHANGED <<clock, text_in, schedVars, exportVars, restVars>>

InitText ==
    /\ clock = 0
    /\ InitSchedIdle
    /\ InitExportIdle
    /\ InitRestIdle
    /\ text_op = "none"
    /\ text_in \in TextInputs
    /\ text_out = <<>>

NextText ==
    \/ ApplyEscape
    \/ ApplyFold
    \/ ApplyVEvent
    \/ ApplyVEventNoItem

SpecText == InitText /\ [][NextText]_vars

---------------------------------------------------------------------------
(* to_dict and from_dict applied to one StudyItem or ReviewItem *)

\* day numbers: 1970-01-01, -01-02, -02-28, -03-01, -12-31, 1971-01-01,
\* 1971-12-22, 1972-02-29
RoundTripDays == {0, 1, 58, 59, 364, 365, 720, 789}

RoundTripDates ==
    { (dd * SecondsPerDay + ss) * TicksPerSecond + f :
        dd \in RoundTripDays, ss \in {0, 1, 3599, 43200, 86399},
        f \in 0..(TicksPerSecond - 1) }

StudyItems ==
    { StudyItem(id, title, notes, t) :
        id \in Uuid4, title \in Titles, notes \in {<<>>, ExampleNote},
        t \in RoundTripDates }

ReviewItems == { ReviewItem(id, Some(t)) : id \in Uuid4, t \in RoundTripDates }

IsStudyItem(o) == "title" \in DOMAIN o

\* d = s.to_dict()
ItemToDict ==
    /\ rt_op = "none"
    /\ IsStudyItem(rt_obj)
    /\ rt_dict' = Some(StudyItem_to_dict(rt_obj))
    /\ rt_op' = "to_dict"
    /\ UNCHANGED <<clock, rt_obj, rt_back, schedVars, exportVars, textVars,
                   rerunVars, appVars>>

\* StudyItem.from_dict(d)
ItemFromDict ==
    /\ rt_op = "to_dict"
    /\ IsStudyItem(rt_obj)
    /\ rt_back' = Some(StudyItem_from_dict(rt_dict[1]))
    /\ rt_op' = "from_dict"
    /\ UNCHANGED <<clock, rt_obj, rt_dict, schedVars, exportVars, textVars,
                   rerunVars, appVars>>

\* d = r.to_dict()
ReviewToDict ==
    /\ rt_op = "none"
    /\ ~IsStudyItem(rt_obj)
    /\ rt_dict' = Some(ReviewItem_to_dict(rt_obj))
    /\ rt_op' = "to_dict"
    /\ UNCHANGED <<clock, rt_obj, rt_back, schedVars, exportVars, textVars,
                   rerunVars, appVars>>

\* ReviewItem.from_dict(d)
ReviewFromDict ==
    /\ rt_op = "to_dict"
    /\ ~IsStudyItem(rt_obj)
    /\ rt_back' = Some(ReviewItem_from_dict(rt_dict[1]))
    /\ rt_op' = "from_dict"
    /\ UNCHANGED <<clock, rt_obj, rt_dict, schedVars, exportVars, textVars,
                   rerunVars, appVars>>

InitModels ==
    /\ clock = 0
    /\ InitSchedIdle
    /\ InitExportIdle
    /\ InitTextIdle
    /\ InitRerunIdle
    /\ InitAppIdle
    /\ rt_op = "none"
    /\ rt_obj \in StudyItems \cup ReviewItems
    /\ rt_dict = None
    /\ rt_back = None

NextModels ==
    \/ ItemToDict
    \/ ItemFromDict
    \/ ReviewToDict
    \/ ReviewFromDict

SpecModels == InitModels /\ [][NextModels]_vars

---------------------------------------------------------------------------
(* App with the default FileStore and SimpleSpacedScheduler, from a new file *)

\* the titles, the notes and the uuid4 values of the calls; the title check
\* of add_item keeps the store at one item per title
AppTitles == { <<"a", ",">>, <<>> }
AppNotes == { <<"n">> }
AppIds == { <<"i", "1">>, <<"i", "2">> }

\* str(uuid.uuid4()) gives an id that is nowhere in the store
FreshIds(d) ==
    { id \in AppIds :
        /\ \A i \in 1..Len(d.items) : d.items[i].id # id
        /\ \A i \in 1..Len(d.reviews) : d.reviews[i].item_id # id }

UNCHANGED_byApp ==
    UNCHANGED <<test_pc, item, entry, exc, updates, exportVars, textVars,
                rerunVars, modelVars>>

\* time passes between two calls
AppTick == Tick /\ UNCHANGED <<schedVars, exportVars, textVars, restVars>>

\* app.add_item(title, notes) with a title no stored item has: new_item
\* reads the clock, generate_initial reads it again, at t
AppAddItem ==
    /\ \E title \in AppTitles :
       /\ ~TitleExists(store, title)
       /\ \E notes \in AppNotes, id \in FreshIds(store),
             t \in clock..Min(clock + 1, MaxClock) :
          LET it == new_item(id, title, notes, clock)
          IN  /\ store' = add_item(store, it, t)
              /\ call' = [op |-> "add_item", arg |-> title]
              /\ ret' = Some(it)
              /\ now' = t
              /\ clock' = t
    /\ raised' = "none"
    /\ store_before' = store
    /\ UNCHANGED_byApp

\* app.add_item(title) with the title of a stored item: ValueError, line 75
AppAddItemRaises ==
    /\ \E title \in AppTitles :
          /\ TitleExists(store, title)
          /\ call' = [op |-> "add_item", arg |-> title]
    /\ raised' = "ValueError"
    /\ ret' = None
    /\ store_before' = store
    /\ UNCHANGED <<clock, now, store>>
    /\ UNCHANGED_byApp

\* app.remove_item(title)
AppRemoveItem ==
    /\ \E title \in AppTitles :
          /\ store' = fs_remove_item_by_title(store, title)
          /\ call' = [op |-> "remove_item", arg |-> title]
    /\ raised' = "none"
    /\ ret' = None
    /\ store_before' = store
    /\ UNCHANGED <<clock, now>>
    /\ UNCHANGED_byApp

\* app.clear()
AppClear ==
    /\ store' = fs_clear(store)
    /\ call' = [op |-> "clear", arg |-> <<>>]
    /\ raised' = "none"
    /\ ret' = None
    /\ store_before' = store
    /\ UNCHANGED <<clock, now>>
    /\ UNCHANGED_byApp

\* app.list_items(due_only)
AppListItems ==
    /\ \E due_only \in BOOLEAN :
          /\ call' = [op |-> "list_items", arg |-> due_only]
          /\ IF ListItemsRaises(store)
             THEN raised' = "StopIteration" /\ ret' = None
             ELSE raised' = "none"
                  /\ ret' = Some(list_items(store, due_only, clock))
    /\ store_before' = store
    /\ UNCHANGED <<clock, now, store>>
    /\ UNCHANGED_byApp

InitApp ==
    /\ clock = 0
    /\ InitSchedIdle
    /\ InitExportIdle
    /\ InitTextIdle
    /\ InitRestIdle

NextApp ==
    \/ AppTick
    \/ AppAddItem
    \/ AppAddItemRaises
    \/ AppRemoveItem
    \/ AppClear
    \/ AppListItems

SpecApp == InitApp /\ [][NextApp]_vars

---------------------------------------------------------------------------
(* A FileStore driven through its own methods, from a new file *)

\* store.save_item(item): an item of the same id is replaced
StoreSaveItem ==
    /\ \E id \in AppIds, title \in AppTitles :
          /\ store' = fs_save_item(store, StudyItem(id, title, <<>>, clock))
          /\ call' = [op |-> "save_item", arg |-> id]
    /\ raised' = "none"
    /\ ret' = None
    /\ store_before' = store
    /\ UNCHANGED <<clock, now>>
    /\ UNCHANGED_byApp

\* store.save_review(review), the review due now or in a day
StoreSaveReview ==
    /\ Len(store.reviews) < MaxStoreReviews
    /\ \E id \in AppIds, date \in {clock, clock + timedelta(1)} :
          /\ store' = fs_save_review(store, ReviewItem(id, Some(date)))
          /\ call' = [op |-> "save_review", arg |-> id]
    /\ raised' = "none"
    /\ ret' = None
    /\ store_before' = store
    /\ UNCHANGED <<clock, now>>
    /\ UNCHANGED_byApp

\* store.remove_reviews_for_item(item_id)
StoreRemoveReviewsForItem ==
    /\ \E id \in AppIds :
          /\ store' = fs_remove_reviews_for_item(store, id)
          /\ call' = [op |-> "remove_reviews_for_item", arg |-> id]
    /\ raised' = "none"
    /\ ret' = Some(store')
    /\ store_before' = store
    /\ UNCHANGED <<clock, now>>
    /\ UNCHANGED_byApp

\* store.remove_item_by_title(title)
StoreRemoveItemByTitle ==
    /\ \E title \in AppTitles :
          /\ store' = fs_remove_item_by_title(store, title)
          /\ call' = [op |-> "remove_item_by_title", arg |-> title]
    /\ raised' = "none"
    /\ ret' = None
    /\ store_before' = store
    /\ UNCHANGED <<clock, now>>
    /\ UNCHANGED_byApp

\* store.clear()
StoreClear ==
    /\ store' = fs_clear(store)
    /\ call' = [op |-> "clear", arg |-> <<>>]
    /\ raised' = "none"
    /\ ret' = None
    /\ store_before' = store
    /\ UNCHANGED <<clock, now>>
    /\ UNCHANGED_byApp

\* store.as_memory()
StoreAsMemory ==
    /\ call' = [op |-> "as_memory", arg |-> <<>>]
    /\ ret' = Some(as_memory(store))
    /\ raised' = "none"
    /\ store_before' = store
    /\ UNCHANGED <<clock, now, store>>
    /\ UNCHANGED_byApp

NextStore ==
    \/ StoreSaveItem
    \/ StoreSaveReview
    \/ StoreRemoveReviewsForItem
    \/ StoreRemoveItemByTitle
    \/ StoreClear
    \/ StoreAsMemory
    \/ AppListItems

SpecStore == InitApp /\ [][NextStore]_vars

---------------------------------------------------------------------------
(* Properties of the scheduler, checked under SpecScheduler *)

\* The day offsets the specification lists for the fixed-horizon schedule
CanonicalOffsets == <<1, 3, 7, 14, 30, 60, 120, 240, 360, 720>>

AdaptiveFields == {"interval_days", "ease", "repetitions", "history"}

\* C2: generate_initial on a fresh item returns one review entry with
\* interval_days = 1, ease 2.5 (in hundredths), repetitions 0, an empty
\* history and next review = now + interval_days
C2_InitialEntryIsAdaptive ==
    test_pc = "generated" =>
        /\ Len(entry) = 1
        /\ AdaptiveFields \subseteq DOMAIN entry[1]
        /\ entry[1].interval_days = 1
        /\ entry[1].ease = 250
        /\ entry[1].repetitions = 0
        /\ entry[1].history = <<>>
        /\ entry[1].review_date = Some(now + timedelta(entry[1].interval_days))

\* C3: after any sequence of update calls the entry has interval_days >= 1,
\* ease within [1.3, 4.5] (in hundredths) and repetitions = number of updates
C3_UpdateKeepsEntryInBounds ==
    updates > 0 =>
        /\ exc = "none"
        /\ Len(entry) = 1
        /\ AdaptiveFields \subseteq DOMAIN entry[1]
        /\ entry[1].interval_days >= 1
        /\ entry[1].ease >= 130 /\ entry[1].ease <= 450
        /\ entry[1].repetitions = updates

---------------------------------------------------------------------------
(* Reading a document back: helpers of the properties below *)

\* the places where `sep` occurs in s, in ascending order
Starts(s, sep) ==
    LET At(i) == s[i] = sep[1] /\ SubSeq(s, i, i + Len(sep) - 1) = sep
    IN  SelectSeq([i \in 1..(Len(s) - Len(sep) + 1) |-> i], At)

\* the pieces of s between the occurrences of sep
Split(s, sep) ==
    LET P == Starts(s, sep)
        n == Len(P)
    IN  [k \in 1..(n + 1) |->
            SubSeq(s, IF k = 1 THEN 1 ELSE P[k - 1] + Len(sep),
                      IF k = n + 1 THEN Len(s) ELSE P[k] - 1)]

FoldSeparator == <<CR, LF, " ">>

\* s with every CRLF+space removed
Unfold(s) == Concat(Split(s, FoldSeparator))

\* the lines of a document as a calendar reader sees them: continuation
\* lines joined to their first line, the final CRLF ending the last line
LogicalLines(doc) ==
    LET ls == Split(Unfold(doc), CRLF)
    IN  SubSeq(ls, 1, Len(ls) - 1)

\* the lines of a document as they are on disk
PhysicalLines(doc) ==
    LET ls == Split(doc, CRLF)
    IN  SubSeq(ls, 1, Len(ls) - 1)

HasPrefix(line, p) == Len(line) >= Len(p) /\ SubSeq(line, 1, Len(p)) = p

HasSuffix(line, p) ==
    Len(line) >= Len(p) /\ SubSeq(line, Len(line) - Len(p) + 1, Len(line)) = p

\* line number j (1..7) of the k-th VEVENT block, in the lines of a document
EventLine(lines, k, j) == lines[3 + 7 * (k - 1) + j]

\* number of VEVENT blocks in the lines of a document
EventCount(lines) ==
    Cardinality({i \in 1..Len(lines) : lines[i] = S_BEGIN_VEVENT})

\* the timestamp of a DTSTART line
StampOf(line) == SubSeq(line, Len(S_DTSTART) + 1, Len(line))

\* The escaped form of a text, character by character: what the
\* specification of the text escaping says
EscapedChar(s, i) ==
    IF s[i] = BS THEN <<BS, BS>>
    ELSE IF s[i] = CR /\ i < Len(s) /\ s[i + 1] = LF THEN <<>>
    ELSE IF s[i] = CR \/ s[i] = LF THEN <<BS, "n">>
    ELSE IF s[i] = "," THEN <<BS, ",">>
    ELSE IF s[i] = ";" THEN <<BS, ";">>
    ELSE <<s[i]>>

Escaped(s) == Concat([i \in 1..Len(s) |-> EscapedChar(s, i)])

\* The order a stable ascending sort by review_date puts the records in:
\* order[k] is the input position of the k-th record emitted
StableOrder(rs) ==
    CHOOSE p \in [1..Len(rs) -> 1..Len(rs)] :
        /\ \A i, j \in 1..Len(rs) : i # j => p[i] # p[j]
        /\ \A i, j \in 1..Len(rs) : i < j =>
              \/ rs[p[i]].review_date[1] < rs[p[j]].review_date[1]
              \/ /\ rs[p[i]].review_date[1] = rs[p[j]].review_date[1]
                 /\ p[i] < p[j]

\* text a <= text b in dictionary order, for two timestamps of equal length
Rank(c) == CHOOSE d \in 0..11 :
              <<"0", "1", "2", "3", "4", "5", "6", "7", "8", "9", "T", "Z">>[d + 1] = c

StampLeq(a, b) ==
    \/ a = b
    \/ \E i \in 1..Len(a) :
          /\ SubSeq(a, 1, i - 1) = SubSeq(b, 1, i - 1)
          /\ Rank(a[i]) < Rank(b[i])

\* export has returned and the document is at the destination
Exported == pc = "returned"

HasNullDate(rs) == \E k \in 1..Len(rs) : rs[k].review_date = None

---------------------------------------------------------------------------
(* Properties of ICSExporter.export, checked under Spec *)

\* C4: export of one or more records of which at least one has a null
\* review_date fails with the ValueError of _format_dt, whatever the other
\* records and their order, before anything is written: the destination is
\* neither created nor modified
C4_NullDateRaisesValueError ==
    (pc \notin {"idle", "loop"} /\ HasNullDate(reviews)) =>
        /\ pc = "raised"
        /\ error = "ValueError"
        /\ dest = dest_before
        /\ tmp_path = None /\ tmp = None

\* C5: at every step of export, also when a step fails, the content at the
\* destination path is what was there before the call (or absent) or the
\* complete new document, never a part of it
C5_DestinationNeverPartial ==
    \/ dest = dest_before
    \/ /\ dest = Some(content)
       /\ pc \in {"finally", "returned"}
       /\ HasPrefix(content, S_BEGIN_VCALENDAR \o CRLF)
       /\ HasSuffix(content, CRLF \o S_END_VCALENDAR \o CRLF)

\* a write has failed half way: the temporary file holds a part of the
\* document and the destination still holds the earlier document
C5_Witness ==
    /\ pc = "finally" /\ error = "OSError"
    /\ tmp # None /\ Len(tmp[1]) > 0 /\ Len(tmp[1]) < Len(content)
    /\ dest # None /\ dest = dest_before

C7_EventsSortedStable ==
    Exported =>
        LET doc   == LogicalLines(dest[1])
            order == StableOrder(reviews)
        IN  /\ EventCount(doc) = Len(reviews)
            /\ \A k \in 1..Len(reviews) :
                  /\ HasPrefix(EventLine(doc, k, 2),
                               S_UID \o Escaped(reviews[order[k]].item_id) \o <<"-">>)
                  /\ EventLine(doc, k, 4)
                        = S_DTSTART \o FormatDt(reviews[order[k]].review_date)
            /\ \A k \in 1..(Len(reviews) - 1) :
                  StampLeq(StampOf(EventLine(doc, k, 4)),
                           StampOf(EventLine(doc, k + 1, 4)))

\* two records of different items with the same review_date were exported
C7_WitnessTie ==
    /\ Exported
    /\ Len(reviews) >= 2
    /\ reviews[1].review_date = reviews[2].review_date
    /\ reviews[1].item_id # reviews[2].item_id

\* two records of different items were given in descending date order
C7_Witness ==
    /\ Exported
    /\ Len(reviews) >= 2
    /\ reviews[1].review_date[1] > reviews[2].review_date[1]
    /\ reviews[1].item_id # reviews[2].item_id

\* C8: a record whose item_id is not a key of the lookup still gets an
\* event, with SUMMARY 'Review: ' + the escaped raw item_id and an empty
\* DESCRIPTION; a record whose item is present gets the item's title in
\* SUMMARY and the item's notes in DESCRIPTION
C8_MissingItemFallsBackToId ==
    Exported =>
        LET doc   == LogicalLines(dest[1])
            order == StableOrder(reviews)
        IN  /\ EventCount(doc) = Len(reviews)
            /\ \A k \in 1..Len(reviews) :
                  LET r == reviews[order[k]]
                  IN  IF r.item_id \in DOMAIN items
                      THEN /\ EventLine(doc, k, 5)
                                = S_SUMMARY \o Escaped(S_Review \o items[r.item_id].title)
                           /\ EventLine(doc, k, 6)
                                = S_DESCRIPTION \o Escaped(items[r.item_id].notes)
                      ELSE /\ EventLine(doc, k, 5)
                                = S_SUMMARY \o S_Review \o Escaped(r.item_id)
                           /\ EventLine(doc, k, 6) = S_DESCRIPTION

\* a record with a missing item and a record with a present item were
\* exported together
C8_Witness ==
    /\ Exported
    /\ \E k \in 1..Len(reviews) : reviews[k].item_id \notin DOMAIN items
    /\ \E k \in 1..Len(reviews) : reviews[k].item_id \in DOMAIN items

\* the document of an export of no records
EmptyContainer ==
    S_BEGIN_VCALENDAR \o CRLF \o S_VERSION \o CRLF \o S_PRODID \o CRLF
    \o S_END_VCALENDAR \o CRLF

\* C11: for n >= 0 records with non-null dates the document starts with
\* BEGIN:VCALENDAR, VERSION and PRODID, ends with END:VCALENDAR and holds
\* exactly n BEGIN:VEVENT/END:VEVENT blocks, one per input record (none
\* dropped, none duplicated); for n = 0 it is the empty container
C11_DocumentStructure ==
    Exported =>
        LET doc   == LogicalLines(dest[1])
            disk  == PhysicalLines(dest[1])
            n     == Len(reviews)
            order == StableOrder(reviews)
        IN  /\ Len(doc) = 4 + 7 * n
            /\ SubSeq(disk, 1, 3) = <<S_BEGIN_VCALENDAR, S_VERSION, S_PRODID>>
            /\ disk[Len(disk)] = S_END_VCALENDAR
            /\ HasSuffix(dest[1], S_END_VCALENDAR \o CRLF)
            /\ Cardinality({i \in 1..Len(disk) : disk[i] = S_BEGIN_VEVENT}) = n
            /\ Cardinality({i \in 1..Len(disk) : disk[i] = S_END_VEVENT}) = n
            /\ \A k \in 1..n :
                  /\ EventLine(doc, k, 1) = S_BEGIN_VEVENT
                  /\ HasPrefix(EventLine(doc, k, 2),
                               S_UID \o Escaped(reviews[order[k]].item_id) \o <<"-">>)
                  /\ EventLine(doc, k, 4)
                        = S_DTSTART \o FormatDt(reviews[order[k]].review_date)
                  /\ EventLine(doc, k, 7) = S_END_VEVENT
            /\ n = 0 => dest[1] = EmptyContainer

\* the same record was given twice and exported
C11_Witness ==
    /\ Exported
    /\ Len(reviews) = 2
    /\ reviews[1] = reviews[2]

\* no record was given and the empty container was written
C11_WitnessEmpty ==
    /\ Exported
    /\ Len(reviews) = 0
    /\ dest = Some(EmptyContainer)

---------------------------------------------------------------------------
(* Properties of two exports of the same input, checked under SpecRerun *)

\* C12: two runs of export on the same records and lookup give documents
\* identical line for line except for the DTSTAMP value and the random
\* component of each UID: the number and order of events, DTSTART, SUMMARY
\* and DESCRIPTION are the same in both
C12_RerunSameButStampAndUid ==
    (Exported /\ first_doc # None) =>
        LET a     == LogicalLines(first_doc[1])
            b     == LogicalLines(dest[1])
            n     == Len(reviews)
            order == StableOrder(reviews)
        IN  /\ Len(a) = Len(b)
            /\ Len(PhysicalLines(first_doc[1])) = Len(PhysicalLines(dest[1]))
            /\ EventCount(a) = n /\ EventCount(b) = n
            /\ SubSeq(a, 1, 3) = SubSeq(b, 1, 3)
            /\ a[Len(a)] = b[Len(b)]
            /\ \A k \in 1..n :
                  LET stem == S_UID \o Escaped(reviews[order[k]].item_id) \o <<"-">>
                  IN  /\ \A j \in {1, 4, 5, 6, 7} :
                            EventLine(a, k, j) = EventLine(b, k, j)
                      /\ HasPrefix(EventLine(a, k, 3), S_DTSTAMP)
                      /\ HasPrefix(EventLine(b, k, 3), S_DTSTAMP)
                      /\ Len(EventLine(a, k, 3)) = Len(EventLine(b, k, 3))
                      /\ HasPrefix(EventLine(a, k, 2), stem)
                      /\ HasPrefix(EventLine(b, k, 2), stem)
                      /\ HasSuffix(EventLine(a, k, 2), S_at_jubarte)
                      /\ HasSuffix(EventLine(b, k, 2), S_at_jubarte)
                      /\ Len(EventLine(a, k, 2)) = Len(EventLine(b, k, 2))

\* two records were exported twice, a second or more apart, and the two
\* documents differ in DTSTAMP and in UID
C12_Witness ==
    /\ Exported /\ first_doc # None
    /\ Len(reviews) = 2
    /\ LET a == LogicalLines(first_doc[1])
           b == LogicalLines(dest[1])
       IN  /\ EventLine(a, 1, 3) # EventLine(b, 1, 3)
           /\ EventLine(a, 2, 2) # EventLine(b, 2, 2)

---------------------------------------------------------------------------
(* Properties of to_dict / from_dict, checked under SpecModels *)

\* C13: StudyItem.from_dict(s.to_dict()) equals s field for field (id,
\* title, notes, created_at) and ReviewItem.from_dict(r.to_dict()) equals r
\* (item_id, review_date), the timestamps preserved
C13_FromDictOfToDict ==
    rt_op = "from_dict" =>
        IF IsStudyItem(rt_obj)
        THEN /\ rt_back[1].id = rt_obj.id
             /\ rt_back[1].title = rt_obj.title
             /\ rt_back[1].notes = rt_obj.notes
             /\ rt_back[1].created_at = rt_obj.created_at
             /\ rt_back[1] = rt_obj
        ELSE /\ rt_back[1].item_id = rt_obj.item_id
             /\ rt_back[1].review_date = rt_obj.review_date
             /\ rt_back[1] = rt_obj

\* an item created at a time with a part below one second, on 1972-02-29,
\* went through to_dict and from_dict
C13_Witness ==
    /\ rt_op = "from_dict"
    /\ IsStudyItem(rt_obj)
    /\ rt_obj.created_at % TicksPerSecond # 0
    /\ rt_obj.created_at \div (SecondsPerDay * TicksPerSecond) = 789
    /\ Len(rt_dict[1].created_at) = 32

\* a review dated at a whole second went through to_dict and from_dict
C13_WitnessReview ==
    /\ rt_op = "from_dict"
    /\ ~IsStudyItem(rt_obj)
    /\ rt_obj.review_date[1] % TicksPerSecond = 0
    /\ Len(rt_dict[1].review_date) = 25

---------------------------------------------------------------------------
(* Properties of App on a FileStore, checked under SpecApp *)

\* the number of places of the sequence xs that hold x
Count(xs, x) == Cardinality({i \in 1..Len(xs) : xs[i] = x})

\* C14: add_item(title) raises when a stored item has that title and then
\* leaves the items and reviews of the store as they were; after any
\* sequence of add_item, remove_item and clear calls no two stored items
\* have the same title
C14_DuplicateTitleRejected ==
    /\ call.op = "add_item" =>
          IF \E i \in 1..Len(store_before.items) :
                store_before.items[i].title = call.arg
          THEN raised = "ValueError" /\ store = store_before
          ELSE raised = "none"
    /\ \A i, j \in 1..Len(store.items) :
          i # j => store.items[i].title # store.items[j].title

\* add_item was refused for the title of one of two stored items
C14_Witness ==
    /\ call.op = "add_item"
    /\ raised = "ValueError"
    /\ Len(store.items) = 2
    /\ Len(store.reviews) = 20

\* the stored reviews of the item `id`, and the stored item `id`
ReviewsOf(d, id) ==
    LET Mine(r) == r.item_id = id
    IN  SelectSeq(fs_load_reviews(d), Mine)

ItemsOf(d, id) ==
    LET Mine(x) == x.id = id
    IN  SelectSeq(fs_load_items(d), Mine)

IdsOf(d) == { d.items[i].id : i \in 1..Len(d.items) }

AddItemSucceeded == call.op = "add_item" /\ raised = "none"

\* C17: every review add_item produces for an item is dated at a reference
\* time (the scheduler's now) plus one of the canonical day offsets and
\* strictly later than the item's created_at; no stored review is ever dated
\* before the creation time of its item
C17_ReviewDatesAfterCreation ==
    /\ AddItemSucceeded =>
          LET rs == ReviewsOf(store, ret[1].id)
          IN  /\ ret[1].created_at <= now
              /\ \A k \in 1..Len(rs) :
                    /\ rs[k].review_date[1]
                          = now + CanonicalOffsets[k] * SecondsPerDay * TicksPerSecond
                    /\ rs[k].review_date[1] > ret[1].created_at
    /\ \A i \in 1..Len(store.reviews) :
          LET r  == fs_load_reviews(store)[i]
              it == ItemsOf(store, r.item_id)
          IN  /\ Len(it) = 1
              /\ r.review_date[1] > it[1].created_at
              /\ \E base \in it[1].created_at..MaxClock, k \in 1..Len(CanonicalOffsets) :
                    r.review_date[1]
                       = base + CanonicalOffsets[k] * SecondsPerDay * TicksPerSecond

\* a second item was added, the clock moving on between new_item and
\* generate_initial
C17_Witness ==
    /\ AddItemSucceeded
    /\ ret[1].created_at < now
    /\ Len(store.items) = 2
    /\ Len(ReviewsOf(store, ret[1].id)) = 10

\* C18: a successful add_item stores the new item and exactly 10 reviews
\* for it and changes no item or review stored before; after any sequence of
\* add_item, remove_item and clear calls every stored item has exactly 10
\* stored reviews, and the date of a stored review never changes between
\* its creation and its removal
C18_TenImmutableReviewsPerItem ==
    /\ AddItemSucceeded =>
          /\ store.items = Append(store_before.items, StudyItem_to_dict(ret[1]))
          /\ Len(store.reviews) = Len(store_before.reviews) + 10
          /\ SubSeq(store.reviews, 1, Len(store_before.reviews))
                = store_before.reviews
          /\ \A i \in (Len(store_before.reviews) + 1)..Len(store.reviews) :
                store.reviews[i].item_id = ret[1].id
    /\ \A id \in IdsOf(store) : Len(ReviewsOf(store, id)) = 10
    /\ \A id \in IdsOf(store) \cap IdsOf(store_before) :
          /\ ReviewsOf(store, id) = ReviewsOf(store_before, id)
          /\ ItemsOf(store, id) = ItemsOf(store_before, id)

\* a second item was added to a store that held an item and its 10 reviews
C18_Witness ==
    /\ AddItemSucceeded
    /\ Len(store_before.items) = 1 /\ Len(store_before.reviews) = 10
    /\ Len(store.items) = 2 /\ Len(store.reviews) = 20

\* C20: after any sequence of add_item, remove_item and clear calls every
\* stored review's item_id is the id of a stored item, so list_items finds
\* the item of each review and returns only pairs (item, review) with
\* item.id = review.item_id, never failing on a missing item
C20_NoOrphanReviews ==
    /\ \A i \in 1..Len(store.reviews) :
          store.reviews[i].item_id \in IdsOf(store)
    /\ call.op = "list_items" =>
          /\ raised = "none"
          /\ \A i \in 1..Len(ret[1]) :
                /\ ret[1][i].item.id = ret[1][i].review.item_id
                /\ Count(fs_load_items(store), ret[1][i].item) = 1
          /\ call.arg = FALSE =>
                [i \in 1..Len(ret[1]) |-> ret[1][i].review] = fs_load_reviews(store)

\* list_items returned the 10 reviews of the one stored item, each paired
\* with that item, when the clock had run to its end
C20_Witness ==
    /\ call.op = "list_items"
    /\ call.arg = FALSE
    /\ Len(ret[1]) = 10
    /\ Len(store.items) = 1
    /\ clock = MaxClock

---------------------------------------------------------------------------
(* Properties of FileStore, checked under SpecStore *)

\* the sequences xs and ys hold the same elements the same number of times
SameCollection(xs, ys) ==
    /\ Len(xs) = Len(ys)
    /\ \A i \in 1..Len(xs) : Count(xs, xs[i]) = Count(ys, xs[i])

\* C15: the MemoryStore as_memory() returns holds all stored data: its
\* load_items() has every item of the FileStore and its load_reviews() has
\* every review of the FileStore (the same collection, none lost), also when
\* an item has several reviews
C15_AsMemoryHoldsAll ==
    call.op = "as_memory" =>
        LET ms == ret[1]
        IN  /\ \A i \in 1..Len(store.items) :
                  Count(ms_load_items(ms), fs_load_items(store)[i]) >= 1
            /\ SameCollection(ms_load_reviews(ms), fs_load_reviews(store))

\* the ids of the items of d titled `title`
IdsByTitle(d, title) ==
    { d.items[i].id : i \in {j \in 1..Len(d.items) : d.items[j].title = title} }

\* C16: after remove_item_by_title(t), also when several items share the
\* title t, no stored item has title t and no stored review references an
\* item the call removed, while every item with another title and every
\* review of such an item is unchanged; when no item has title t the store
\* content is unchanged
C16_RemoveByTitleRemovesReviews ==
    call.op = "remove_item_by_title" =>
        LET t       == call.arg
            removed == IdsByTitle(store_before, t)
            OtherTitle(x) == x.title # t
            NotRemoved(r) == r.item_id \notin removed
        IN  /\ \A i \in 1..Len(store.items) : store.items[i].title # t
            /\ \A i \in 1..Len(store.reviews) :
                  store.reviews[i].item_id \notin removed
            /\ store.items = SelectSeq(store_before.items, OtherTitle)
            /\ store.reviews = SelectSeq(store_before.reviews, NotRemoved)
            /\ removed = {} => store = store_before

---------------------------------------------------------------------------
(* Properties of the text helpers, checked under SpecText *)

\* the values the event of ApplyVEvent / ApplyVEventNoItem is built from
EventUid == text_in \o <<"-", "u", "1">> \o S_at_jubarte
EventSummary == S_Review \o text_in
EventDescription == IF text_op = "vevent" THEN text_in ELSE <<>>

IsEvent == text_op \in {"vevent", "vevent_noitem"}

\* C9: _escape replaces each backslash by two backslashes, each newline
\* variant (CRLF, CR, LF) by backslash + n, each comma by backslash comma,
\* each semicolon by backslash semicolon ('a,b;c<LF>d' gives 'a\,b\;c\nd');
\* the result has no raw CR or LF; export applies it to the UID, SUMMARY and
\* DESCRIPTION values
C9_EscapeReplacesSpecials ==
    /\ text_op = "escape" =>
          /\ text_out = Escaped(text_in)
          /\ \A i \in 1..Len(text_out) : text_out[i] # CR /\ text_out[i] # LF
          /\ text_in = ExampleNote =>
                text_out = <<"a", BS, ",", "b", BS, ";", "c", BS, "n", "d">>
    /\ IsEvent =>
          /\ Unfold(text_out[2]) = S_UID \o Escaped(EventUid)
          /\ Unfold(text_out[5]) = S_SUMMARY \o Escaped(EventSummary)
          /\ Unfold(text_out[6]) = S_DESCRIPTION \o Escaped(EventDescription)

\* a text with a backslash and a CRLF was escaped to `\\` and `\n`
C9_Witness ==
    /\ text_op = "escape"
    /\ \E i \in 1..Len(text_in) : text_in[i] = BS
    /\ \E i \in 1..(Len(text_in) - 1) : text_in[i] = CR /\ text_in[i + 1] = LF
    /\ Len(text_out) = 4

\* the segments of a folded line: ceil(L/75) of them, of 75 characters each
\* but the last, which make up `line` again
FoldedAs(out, line) ==
    LET segs == Split(out, FoldSeparator)
        L    == Len(line)
    IN  /\ L <= 75 => out = line
        /\ L > 75 =>
              /\ Len(segs) = (L + 74) \div 75
              /\ \A k \in 1..(Len(segs) - 1) : Len(segs[k]) = 75
              /\ Len(segs[Len(segs)]) >= 1 /\ Len(segs[Len(segs)]) <= 75
        /\ Concat(segs) = line
        /\ Unfold(out) = line
        /\ L = 200 => Len(segs) = 3

\* C10: _fold returns a line of at most 75 characters unchanged and splits a
\* longer line of length L into ceil(L/75) consecutive segments, all of 75
\* characters but possibly the last, joined by CRLF + space (a 200-character
\* line gives 3); removing the separators gives the line back; folding is
\* applied to the text already escaped
C10_FoldSplitsEvery75 ==
    /\ text_op = "fold" => FoldedAs(text_out, text_in)
    /\ IsEvent =>
          /\ FoldedAs(text_out[2], S_UID \o Escaped(EventUid))
          /\ FoldedAs(text_out[5], S_SUMMARY \o Escaped(EventSummary))
          /\ FoldedAs(text_out[6], S_DESCRIPTION \o Escaped(EventDescription))

\* a line of 200 characters was folded into 3 segments
C10_Witness ==
    /\ text_op = "fold"
    /\ Len(text_in) = 200
    /\ Len(Split(text_out, FoldSeparator)) = 3

\* an event was built from a text whose escaped SUMMARY needs three lines
C10_WitnessEvent ==
    /\ text_op = "vevent"
    /\ Len(Split(text_out[5], FoldSeparator)) = 3

\* every piece of `out` between CRLF separators has at most 75 characters
LinesAtMost75(out) ==
    LET disk == Split(out, CRLF)
    IN  \A k \in 1..Len(disk) : Len(disk[k]) <= 75

\* C19: every physical line (the text between consecutive CRLF separators)
\* of the output of _fold, and so of the exported document, has at most 75
\* characters, the leading space of a continuation line included, for every
\* input line length
C19_PhysicalLinesAtMost75 ==
    /\ text_op = "fold" => LinesAtMost75(text_out)
    /\ IsEvent => \A j \in 1..Len(text_out) : LinesAtMost75(text_out[j])

===========================================================================
